---- MODULE Spec2Model ----
(***************************************************************************)
(* Model of lance_ray/datasource.py: LanceDatasource (the fragment-        *)
(* partitioned read-task factory), the read tasks it returns, and the      *)
(* generator _read_fragments that every invocation of a read task runs.    *)
(*                                                                         *)
(* Python values are modelled as follows.                                  *)
(*   - a fragment object is modelled by its identifier (f.metadata.id);    *)
(*   - an Optional value or a dict entry that may be missing is a sequence *)
(*     of length <= 1: <<>> is None / key absent, <<v>> is the value v;    *)
(*   - a str is a sequence of tokens, `in` on strs is contiguous           *)
(*     subsequence containment;                                            *)
(*   - the scanner_options dict is a record of its three entries           *)
(*     "columns", "filter", "fragments".  It is ONE object: the factory    *)
(*     attribute and every read task's closure refer to the same dict.     *)
(***************************************************************************)
EXTENDS Integers, Sequences, FiniteSets, TLC

VARIABLES
    lance_ds,             \* the opened dataset: [fragments, rows]
    scanner_options,      \* self.scanner_options, the dict object shared by all closures
    constructed_options,  \* history: the value of scanner_options when __init__ returned
    retry_params,         \* self._retry_params
    read_tasks,           \* the list returned by the last get_read_tasks call
    parallelism,          \* history: argument of the last get_read_tasks call, 0 before
    invocations,          \* one record per call of a read task's callable
    lib_calls             \* history: dataset-library calls made so far, [who, op],
                          \* who is "factory" or "read_task"

vars == << lance_ds, scanner_options, constructed_options, retry_params,
           read_tasks, parallelism, invocations, lib_calls >>

-----------------------------------------------------------------------------
(* Bounds of the model *)

MaxFrags == 3        \* fragment ids are 0 .. MaxFrags-1, a dataset has <= MaxFrags fragments
MaxRows == 2         \* a fragment holds 1 .. MaxRows rows
MaxParallelism == 5  \* get_read_tasks is called with 1 .. MaxParallelism
MaxInvocations == 2  \* Spec: read-task callables are invoked at most this often
MaxThreads == 3      \* SpecThreads: read-task callables are invoked at most this often

(* Program constants *)

READ_FRAGMENTS_MAX_ATTEMPTS == 10
READ_FRAGMENTS_RETRY_MAX_BACKOFF_SECONDS == 32

-----------------------------------------------------------------------------
(* Generic helpers on Python values *)

None == << >>
Some(v) == << v >>

Min(a, b) == IF a <= b THEN a ELSE b

RECURSIVE SumSeq(_)
SumSeq(s) == IF s = << >> THEN 0 ELSE Head(s) + SumSeq(Tail(s))

RECURSIVE Concat(_)
Concat(ss) == IF ss = << >> THEN << >> ELSE Head(ss) \o Concat(Tail(ss))

Range(s) == { s[i] : i \in 1..Len(s) }

\* pattern in message, for Python strs
StrContains(msg, pattern) ==
    \E k \in 0..(Len(msg) - Len(pattern)) :
        SubSeq(msg, k + 1, k + Len(pattern)) = pattern

-----------------------------------------------------------------------------
(* The dataset library (lance), as far as the adapter uses it *)

FragIds == 0..(MaxFrags - 1)

\* lance_ds.get_fragments(): the fragment list, in the library's order
InjectiveSeqs(maxLen) ==
    UNION { { s \in [1..n -> FragIds] : \A i, j \in 1..n : i # j => s[i] # s[j] }
            : n \in 0..maxLen }

Datasets ==
    UNION { { [fragments |-> s, rows |-> r] : r \in [Range(s) -> 1..MaxRows] }
            : s \in InjectiveSeqs(MaxFrags) }

\* f.count_rows() with no filter argument: the fragment's stored row count
count_rows(ds, f) == ds.rows[f]

\* f.data_files(): the paths of the fragment's backing files
data_files(f) == << <<"data", f>> >>

\* f.schema: one schema for the dataset
schema(f) == "schema"

-----------------------------------------------------------------------------
(* np.array_split(ary, n) on a one-dimensional list *)

\* section_sizes = extras * [Neach + 1] + (n - extras) * [Neach]
SectionSize(total, n, i) ==
    IF i <= total % n THEN (total \div n) + 1 ELSE total \div n

\* div_points = cumsum([0] + section_sizes); DivPoint(.., i) is div_points[i]
RECURSIVE DivPoint(_, _, _)
DivPoint(total, n, i) ==
    IF i = 0 THEN 0 ELSE DivPoint(total, n, i - 1) + SectionSize(total, n, i)

\* a slice that takes one element too many
SliceInclusive(ary, st, end) == SubSeq(ary, st + 1, Min(end + 1, Len(ary)))

\* sary[st:end]
Slice(ary, st, end) == SubSeq(ary, st + 1, end)

\* ary[i::n], a strided split
array_split_strided(ary, n) ==
    [ i \in 1..n |->
        LET count == IF Len(ary) < i THEN 0 ELSE ((Len(ary) - i) \div n) + 1
        IN  [ k \in 1..count |-> ary[i + (k - 1) * n] ] ]

array_split(ary, n) ==
    [ i \in 1..n |->
        Slice(ary, DivPoint(Len(ary), n, i - 1), DivPoint(Len(ary), n, i)) ]

-----------------------------------------------------------------------------
(* LanceDatasource.__init__ *)

READ_FRAGMENTS_ERRORS_TO_RETRY == << <<"LanceError", "(", "IO", ")">> >>

\* the merge of columns / filter into scanner_options
MergeOptions(columns, filter, options) ==
    [ columns   |-> IF columns # None THEN columns ELSE options.columns,
      filter    |-> IF filter # None THEN filter ELSE options.filter,
      fragments |-> options.fragments ]

\* self._retry_params
RetryParams(retried_io_errors) ==
    [ match         |-> READ_FRAGMENTS_ERRORS_TO_RETRY \o retried_io_errors,
      max_attempts  |-> READ_FRAGMENTS_MAX_ATTEMPTS,
      max_backoff_s |-> READ_FRAGMENTS_RETRY_MAX_BACKOFF_SECONDS ]

-----------------------------------------------------------------------------
(* LanceDatasource.get_read_tasks *)

\* no group is skipped
KeepEveryGroup(fragments) == TRUE

\* the test of lines 60-61: a group is skipped when len(fragments) <= 0
KeepGroup(fragments) == ~(Len(fragments) <= 0)

\* sum(f.count_rows() for f in fragments) under the configured filter
NumRowsFiltered(ds, options, fragments) ==
    IF options.filter # None THEN 0
    ELSE SumSeq([ k \in 1..Len(fragments) |-> count_rows(ds, fragments[k]) ])

\* sum(f.count_rows() for f in fragments)
NumRows(ds, options, fragments) ==
    SumSeq([ k \in 1..Len(fragments) |-> count_rows(ds, fragments[k]) ])

\* BlockMetadata(num_rows, schema, input_files, size_bytes=None, exec_stats=None)
Metadata(ds, options, fragments) ==
    [ num_rows    |-> NumRows(ds, options, fragments),
      schema      |-> schema(fragments[1]),
      input_files |-> Concat([ k \in 1..Len(fragments) |-> data_files(fragments[k]) ]),
      size_bytes  |-> None,
      exec_stats  |-> None ]

\* create_read_task: the closure keeps fragment_ids; lance_ds, scanner_options and
\* retry_params are the factory's own objects, passed by reference
ReadTask(ds, options, fragments) ==
    [ fragment_ids |-> [ k \in 1..Len(fragments) |-> fragments[k] ],
      metadata     |-> Metadata(ds, options, fragments) ]

\* the body of the loop of get_read_tasks over the groups, in order
RECURSIVE ReadTasksOf(_, _, _)
ReadTasksOf(ds, options, groups) ==
    IF groups = << >> THEN << >>
    ELSE IF KeepGroup(Head(groups))
         THEN << ReadTask(ds, options, Head(groups)) >>
                  \o ReadTasksOf(ds, options, Tail(groups))
         ELSE ReadTasksOf(ds, options, Tail(groups))

\* get_read_tasks reading the groups itself
PlanLibraryCallsEager(tasks) ==
    { "get_fragments" } \cup
    ( IF tasks = << >> THEN { }
      ELSE { "count_rows", "data_files", "get_fragment", "scanner", "to_reader" } )

\* the dataset-library operations get_read_tasks performs: get_fragments, and
\* count_rows and data_files on the fragments of the groups it keeps
PlanLibraryCalls(tasks) ==
    { "get_fragments" } \cup
    ( IF tasks = << >> THEN { } ELSE { "count_rows", "data_files" } )

get_read_tasks(P) ==
    LET tasks == ReadTasksOf(lance_ds, scanner_options,
                             array_split(lance_ds.fragments, P))
    IN  /\ read_tasks' = tasks
        /\ parallelism' = P
        /\ lib_calls' = lib_calls \cup
               { [who |-> "factory", op |-> o] : o \in PlanLibraryCalls(tasks) }
        /\ UNCHANGED << lance_ds, scanner_options, constructed_options,
                        retry_params, invocations >>

-----------------------------------------------------------------------------
(* ray.data._internal.util.call_with_retry, as _read_fragments_with_retry uses it *)

\* any(pattern in str(e) for pattern in match)
IsRetryable(msg, match) ==
    \E k \in 1..Len(match) : StrContains(msg, match[k])

\* for i in range(max_attempts): try: return f()
\*                               except e: retry after a backoff sleep when e is
\*                               retryable and i + 1 < max_attempts, else raise
\* f_result is what one call of f does: [raised |-> None] when f returns,
\* [raised |-> Some(msg)] when it raises.  i is the 0-based attempt index.
RECURSIVE call_with_retry(_, _, _)
call_with_retry(f_result, params, i) ==
    IF f_result.raised = None
    THEN [ attempts |-> i + 1, backoffs |-> i, raised |-> None ]
    ELSE IF IsRetryable(f_result.raised[1], params.match) /\ i + 1 < params.max_attempts
         THEN call_with_retry(f_result, params, i + 1)
         ELSE [ attempts |-> i + 1, backoffs |-> i, raised |-> f_result.raised ]

\* lambda: _read_fragments(fragment_ids, lance_ds, scanner_options)
\* _read_fragments contains a yield, so calling it runs none of its body: the call
\* returns a new generator object and cannot raise.
ReadFragmentsCall == [ raised |-> None ]

-----------------------------------------------------------------------------
(* One invocation of a read task's callable, and the generator it returns *)

\* the scanner's batches for one fragment, under the scanner's filter: one batch
\* holding the fragment's rows, none when the filter leaves no row
BatchesOf(ds, f, filter) ==
    IF filter # None THEN << >>
    ELSE << [ fragment |-> f, num_rows |-> ds.rows[f] ] >>

\* scanner.to_reader(): the batches of the scanner's fragments, in their order
Emission(ds, scanner) ==
    Concat([ k \in 1..Len(scanner.fragments) |->
                 BatchesOf(ds, scanner.fragments[k], scanner.filter) ])

\* pa.Table.from_batches([batch])
TableFromBatches(batches) == [ batches |-> batches ]

\* the tables an invocation has yielded to its consumer so far
Delivered(inv) ==
    IF inv.scanner = None THEN << >>
    ELSE [ k \in 1..inv.pos |->
               TableFromBatches(<< Emission(lance_ds, inv.scanner[1])[k] >>) ]

\* The callable of read task t is called: _read_fragments_with_retry runs
\* call_with_retry around the creation of the generator and returns the generator.
Invoke(t, limit) ==
    LET r == call_with_retry(ReadFragmentsCall, retry_params, 0)
    IN  /\ Len(invocations) < limit
        /\ invocations' = Append(invocations,
               [ task         |-> t,
                 fragment_ids |-> read_tasks[t].fragment_ids,
                 pc           |-> IF r.raised = None THEN "created" ELSE "failed",
                 fragments    |-> << >>,
                 scanner      |-> None,
                 pos          |-> 0,
                 raised       |-> r.raised,
                 attempts     |-> r.attempts,
                 backoffs     |-> r.backoffs ])
        /\ UNCHANGED << lance_ds, scanner_options, constructed_options,
                        retry_params, read_tasks, parallelism, lib_calls >>

\* line 134: fragments = [lance_ds.get_fragment(id) for id in fragment_ids]
Resolve(i) ==
    /\ invocations[i].pc = "created"
    /\ invocations' = [ invocations EXCEPT ![i].pc = "resolved",
                            ![i].fragments = invocations[i].fragment_ids ]
    /\ lib_calls' = lib_calls \cup { [who |-> "read_task", op |-> "get_fragment"] }
    /\ UNCHANGED << lance_ds, scanner_options, constructed_options,
                    retry_params, read_tasks, parallelism >>

\* line 135: scanner_options["fragments"] = fragments, on the shared dict
Inject(i) ==
    /\ invocations[i].pc = "resolved"
    /\ scanner_options' =
           [ scanner_options EXCEPT !.fragments = Some(invocations[i].fragments) ]
    /\ invocations' = [ invocations EXCEPT ![i].pc = "injected" ]
    /\ UNCHANGED << lance_ds, constructed_options, retry_params, read_tasks,
                    parallelism, lib_calls >>

\* line 136: scanner = lance_ds.scanner(**scanner_options), the dict as it is now
Scan(i) ==
    /\ invocations[i].pc = "injected"
    /\ invocations' = [ invocations EXCEPT ![i].pc = "reading",
                            ![i].scanner = Some([ fragments |-> scanner_options.fragments[1],
                                                  filter    |-> scanner_options.filter,
                                                  columns   |-> scanner_options.columns ]) ]
    /\ lib_calls' = lib_calls \cup { [who |-> "read_task", op |-> "scanner"] }
    /\ UNCHANGED << lance_ds, scanner_options, constructed_options,
                    retry_params, read_tasks, parallelism >>

\* lines 137-138: the reader hands out its next batch, which is yielded as a table
NextBatch(i) ==
    /\ invocations[i].pc = "reading"
    /\ invocations[i].pos < Len(Emission(lance_ds, invocations[i].scanner[1]))
    /\ invocations' = [ invocations EXCEPT ![i].pos = @ + 1 ]
    /\ lib_calls' = lib_calls \cup { [who |-> "read_task", op |-> "to_reader"] }
    /\ UNCHANGED << lance_ds, scanner_options, constructed_options,
                    retry_params, read_tasks, parallelism >>

\* line 137: the reader is exhausted, the generator returns
Exhaust(i) ==
    /\ invocations[i].pc = "reading"
    /\ invocations[i].pos = Len(Emission(lance_ds, invocations[i].scanner[1]))
    /\ invocations' = [ invocations EXCEPT ![i].pc = "done" ]
    /\ lib_calls' = lib_calls \cup { [who |-> "read_task", op |-> "to_reader"] }
    /\ UNCHANGED << lance_ds, scanner_options, constructed_options,
                    retry_params, read_tasks, parallelism >>

\* an exception raised inside the generator's body, rerun by a retry loop
OnBodyErrorRestart(inv, msg) ==
    IF inv.attempts < READ_FRAGMENTS_MAX_ATTEMPTS
    THEN [ inv EXCEPT !.pc = "created", !.raised = Some(msg), !.fragments = << >>,
                      !.scanner = None, !.pos = 0,
                      !.attempts = @ + 1, !.backoffs = @ + 1 ]
    ELSE [ inv EXCEPT !.pc = "failed", !.raised = Some(msg), !.fragments = << >>,
                      !.scanner = None, !.pos = 0 ]

\* an exception raised inside the generator's body (lines 134-138 have no handler,
\* and the body runs under the consumer's next(), after call_with_retry returned):
\* the generator is finished and the exception reaches the consumer
OnBodyError(inv, msg) ==
    [ inv EXCEPT !.pc = "failed", !.raised = Some(msg), !.fragments = << >>,
                 !.scanner = None, !.pos = 0 ]

\* the messages of the errors the dataset library raises
ErrorMessages ==
    { << "LanceError", "(", "IO", ")", ":", "timed out" >>,
      << "OSError", ":", "AWS Error", "SLOW_DOWN" >>,
      << "LanceError", "(", "Schema", ")" >> }

\* get_fragment (line 134), scanner (line 136) or the reader (line 137) raises msg
RaiseInBody(i, msg) ==
    /\ invocations[i].pc \in { "created", "injected", "reading" }
    /\ invocations' = [ invocations EXCEPT ![i] = OnBodyError(@, msg) ]
    /\ UNCHANGED << lance_ds, scanner_options, constructed_options,
                    retry_params, read_tasks, parallelism, lib_calls >>

-----------------------------------------------------------------------------
(* Initial states: the state when LanceDatasource.__init__ has returned *)

Columns == { None, Some(<<"a">>) }
Filters == { None, Some("FALSE") }     \* "FALSE": an expression no row satisfies

NoOptions == [ columns |-> None, filter |-> None, fragments |-> None ]

Constructed(ds, columns, filter, options, retried_io_errors) ==
    /\ lance_ds = ds
    /\ scanner_options = MergeOptions(columns, filter, options)
    /\ constructed_options = MergeOptions(columns, filter, options)
    /\ retry_params = RetryParams(retried_io_errors)
    /\ read_tasks = << >>
    /\ parallelism = 0
    /\ invocations = << >>
    /\ lib_calls = { }

InitPlan ==
    \E ds \in Datasets, columns \in Columns, filter \in Filters :
        Constructed(ds, columns, filter, NoOptions, << >>)

NextPlan == \E P \in 1..MaxParallelism : get_read_tasks(P)

SpecPlan == InitPlan /\ [][NextPlan]_vars

\* DataContext.get_current().retried_io_errors
RetriedIoErrors == { << >>, << << "AWS Error", "SLOW_DOWN" >> >> }

\* the scanner_options argument: None, or a dict that already has "fragments"
OptionsArguments(ds) ==
    { NoOptions, [ NoOptions EXCEPT !.fragments = Some(ds.fragments) ] }

ReadDatasets ==
    { ds \in Datasets : ds.fragments = << 1, 0 >> /\ \A f \in { 0, 1 } : ds.rows[f] = 1 }

\* Spec: the engine's list of retried errors varies
Init ==
    \E ds \in ReadDatasets, retried \in RetriedIoErrors :
        Constructed(ds, None, None, NoOptions, retried)

\* SpecThreads: the scanner_options argument varies
InitThreads ==
    \E ds \in ReadDatasets :
        \E options \in OptionsArguments(ds) :
            Constructed(ds, None, None, options, << >>)

\* the parallelism values of the reading specifications: up to one group per fragment
ReadParallelisms == 1..Min(MaxParallelism, Len(lance_ds.fragments))

\* Reading with failures: every line of the generator body is a step of its own,
\* so the invocations interleave as threads of one process do.
Next ==
    \/ \E P \in ReadParallelisms : get_read_tasks(P)
    \/ \E t \in 1..Len(read_tasks) : Invoke(t, MaxInvocations)
    \/ \E i \in 1..Len(invocations) :
           \/ Resolve(i)
           \/ Inject(i)
           \/ Scan(i)
           \/ NextBatch(i)
           \/ Exhaust(i)
           \/ \E msg \in ErrorMessages : RaiseInBody(i, msg)

Spec == Init /\ [][Next]_vars

\* Reading without failures of the dataset library, with more invocations
NextThreads ==
    \/ \E P \in ReadParallelisms : get_read_tasks(P)
    \/ \E t \in 1..Len(read_tasks) : Invoke(t, MaxThreads)
    \/ \E i \in 1..Len(invocations) :
           \/ Resolve(i)
           \/ Inject(i)
           \/ Scan(i)
           \/ NextBatch(i)
           \/ Exhaust(i)

SpecThreads == InitThreads /\ [][NextThreads]_vars

-----------------------------------------------------------------------------
(* Properties of get_read_tasks, checked under SpecPlan *)

Planned == parallelism > 0

NumFragments == Len(lance_ds.fragments)

GroupOf(t) == read_tasks[t].fragment_ids

\* the places (unit, position) at which identifier id occurs in the returned groups
PlacesOf(id) ==
    { tk \in UNION { { <<t, k>> : k \in 1..Len(GroupOf(t)) } : t \in 1..Len(read_tasks) } :
        GroupOf(tk[1])[tk[2]] = id }

\* C1: after get_read_tasks(P), P >= 1, the groups of the returned read tasks
\* partition the dataset's fragment identifiers: every identifier of the dataset
\* occurs at exactly one place of exactly one group, and every identifier in a
\* group is an identifier of the dataset.
C1_PartitionComplete ==
    Planned =>
        /\ \A id \in Range(lance_ds.fragments) : Cardinality(PlacesOf(id)) = 1
        /\ \A t \in 1..Len(read_tasks) :
               Range(GroupOf(t)) \subseteq Range(lance_ds.fragments)

C1_Witness ==
    /\ Planned
    /\ Len(read_tasks) >= 2
    /\ \E t \in 1..Len(read_tasks) : Len(GroupOf(t)) >= 2
    /\ \E k \in 1..(NumFragments - 1) :
           lance_ds.fragments[k] > lance_ds.fragments[k + 1]

\* C4: get_read_tasks(P) returns between 0 and min(F, P) read tasks, none with an
\* empty group; when P > F it returns exactly F read tasks of one fragment each.
C4_UnitCount ==
    Planned =>
        /\ Len(read_tasks) >= 0
        /\ Len(read_tasks) <= Min(NumFragments, parallelism)
        /\ \A t \in 1..Len(read_tasks) : Len(GroupOf(t)) > 0
        /\ parallelism > NumFragments =>
               /\ Len(read_tasks) = NumFragments
               /\ \A t \in 1..Len(read_tasks) : Len(GroupOf(t)) = 1

C4_Witness ==
    /\ Planned
    /\ NumFragments >= 2
    /\ parallelism > NumFragments
    /\ Len(read_tasks) = NumFragments

\* C5: the groups of the returned read tasks are contiguous runs of the fragment
\* list in the library's order (their concatenation in task order is the fragment
\* list), and the sizes of any two groups differ by at most one.
C5_ContiguousBalanced ==
    Planned =>
        /\ Concat([ t \in 1..Len(read_tasks) |-> GroupOf(t) ]) = lance_ds.fragments
        /\ \A t, u \in 1..Len(read_tasks) :
               Len(GroupOf(t)) - Len(GroupOf(u)) <= 1

C5_Witness ==
    /\ Planned
    /\ \E t, u \in 1..Len(read_tasks) : Len(GroupOf(t)) = Len(GroupOf(u)) + 1
    /\ \E k \in 1..(NumFragments - 1) :
           lance_ds.fragments[k] > lance_ds.fragments[k + 1]

\* the dataset's stored (unfiltered) row count of a set of fragments
RECURSIVE StoredRows(_)
StoredRows(ids) ==
    IF ids = { } THEN 0
    ELSE LET id == CHOOSE x \in ids : TRUE
         IN  lance_ds.rows[id] + StoredRows(ids \ { id })

\* C6: each returned read task's metadata row count is the sum of the stored,
\* unfiltered row counts of the fragments of its group, with or without a filter
\* or a column projection configured, and the row counts of all returned read
\* tasks add up to the dataset's total row count.
C6_RowCounts ==
    Planned =>
        /\ \A t \in 1..Len(read_tasks) :
               read_tasks[t].metadata.num_rows = StoredRows(Range(GroupOf(t)))
        /\ SumSeq([ t \in 1..Len(read_tasks) |-> read_tasks[t].metadata.num_rows ])
               = StoredRows(Range(lance_ds.fragments))

C6_Witness ==
    /\ Planned
    /\ scanner_options.filter # None
    /\ scanner_options.columns # None
    /\ Len(read_tasks) >= 2
    /\ \E t \in 1..Len(read_tasks) :
           /\ Len(GroupOf(t)) = 2
           /\ read_tasks[t].metadata.num_rows = 3

-----------------------------------------------------------------------------
(* Properties of reading, checked under Spec and SpecThreads *)

Invocation(i) == invocations[i]

Transient(msg) == IsRetryable(msg, retry_params.match)

\* invocations i and j are invocations of the same read task
SameReadTask(i, j) ==
    /\ Invocation(i).task = Invocation(j).task
    /\ Invocation(i).fragment_ids = Invocation(j).fragment_ids

\* C2: when a step of a read attempt raises an error whose message contains a
\* configured transient substring, the attempt is retried, and the error reaches
\* the consumer only after max_attempts (10) attempts have been made.
C2_TransientRetriedToMaxAttempts ==
    \A i \in 1..Len(invocations) :
        ( /\ Invocation(i).pc = "failed"
          /\ Transient(Invocation(i).raised[1]) )
        => Invocation(i).attempts = retry_params.max_attempts

\* C3: every invocation works on its own copy of the scan options: the factory's
\* scanner_options keeps the value it had when construction ended, whatever
\* invocations ran.
C3_FactoryOptionsUnchanged ==
    scanner_options = constructed_options

\* C7: two invocations of the same read task give independent sequences that,
\* with the dataset unchanged, deliver the same batches in the same order: what
\* one has delivered is a prefix of what the other has, and two drained
\* invocations have delivered the same tables.
C7_SameBatchesTwice ==
    \A i, j \in 1..Len(invocations) :
        ( /\ SameReadTask(i, j)
          /\ Invocation(i).scanner # None
          /\ Invocation(j).scanner # None
          /\ Invocation(i).pos <= Invocation(j).pos )
        => /\ Delivered(Invocation(i))
                = SubSeq(Delivered(Invocation(j)), 1, Invocation(i).pos)
           /\ ( Invocation(i).pc = "done" /\ Invocation(j).pc = "done" )
                => Delivered(Invocation(i)) = Delivered(Invocation(j))

\* C8: when a read attempt raises an error whose message contains none of the
\* configured transient substrings, the error reaches the consumer on that first
\* failure: the invocation has failed after one attempt and without a backoff
\* wait, and no further attempt runs.
C8_NonTransientSurfacesAtOnce ==
    \A i \in 1..Len(invocations) :
        ( /\ Invocation(i).raised # None
          /\ ~Transient(Invocation(i).raised[1]) )
        => /\ Invocation(i).pc = "failed"
           /\ Invocation(i).attempts = 1
           /\ Invocation(i).backoffs = 0

C8_Witness ==
    \E i \in 1..Len(invocations) :
        /\ Invocation(i).pc = "failed"
        /\ Invocation(i).raised = Some(<< "LanceError", "(", "Schema", ")" >>)
        /\ ~Transient(Invocation(i).raised[1])
        /\ [who |-> "read_task", op |-> "to_reader"] \in lib_calls

\* C9: every scanner built for an invocation is given exactly the fragments of
\* the invocation's own group, in group order, in every interleaving of
\* invocations running in one process.
C9_ScannerGetsOwnGroup ==
    \A i \in 1..Len(invocations) :
        Invocation(i).scanner # None
        => Invocation(i).scanner[1].fragments = Invocation(i).fragment_ids

ReadOps == { "get_fragment", "scanner", "to_reader" }

\* C10: reads are deferred: construction and get_read_tasks never re-resolve a
\* fragment by id, build a scanner or fetch a batch; such calls are made only by
\* invocations of read tasks, after the callable was called, while every read
\* task returned by get_read_tasks already carries its metadata.
C10_ReadsDeferred ==
    /\ \A c \in lib_calls :
           c.op \in ReadOps =>
               /\ c.who = "read_task"
               /\ \E i \in 1..Len(invocations) : Invocation(i).pc # "created"
    /\ invocations = << >> => \A c \in lib_calls : c.op \notin ReadOps
    /\ \A t \in 1..Len(read_tasks) :
           /\ read_tasks[t].metadata.num_rows = StoredRows(Range(GroupOf(t)))
           /\ read_tasks[t].metadata.input_files # << >>

C10_Witness ==
    /\ [who |-> "factory", op |-> "count_rows"] \in lib_calls
    /\ [who |-> "read_task", op |-> "scanner"] \in lib_calls
    /\ \E i \in 1..Len(invocations) :
           Invocation(i).pc = "reading" /\ Invocation(i).pos > 0

====
